---------------------------- MODULE Spec2Model ----------------------------
(***************************************************************************)
(* leadFinder: the response-extraction pipeline of fetchBusinessData       *)
(* (src/services/geminiService.ts) and the search page that calls it       *)
(* (src/App.tsx).  Spec is one call of fetchBusinessData; SpecApp is the   *)
(* page with its user and its outstanding calls; SpecUrl is the page with  *)
(* its five form fields and its address bar, loaded again and again.       *)
(*                                                                         *)
(* A text is a sequence of atoms.  An atom is one character ("[", "]",     *)
(* "{", "}", ",", ":", the double quote, a blank, a line feed, a digit,    *)
(* the backtick) or a word: a run of characters that no operation of the   *)
(* code splits (the code looks for the characters above, for the word json *)
(* after three backticks, and for two phrases made of whole words).  A     *)
(* JavaScript string equals another exactly when their atom sequences are  *)
(* equal, because no word of the vocabulary is a concatenation of others.  *)
(* The backtick cannot be written in a TLA+ string; BT stands for it.      *)
(* Indices are those of JavaScript: they start at 0 and -1 means absent.   *)
(***************************************************************************)
EXTENDS Integers, Sequences, FiniteSets, TLC

VARIABLES
    response,   \* what the awaited generateContent call gives (the input)
    shape,      \* how the model's answer was composed (intro, fence, payload, outro)
    pc,         \* position of fetchBusinessData
    text,       \* the local variable `text`
    results,    \* the local variable `results` (sanitized, before the filter)
    outcome     \* what the caller of fetchBusinessData gets

fetchVars == <<response, shape, pc, text, results, outcome>>

VARIABLES
    keyword, city, industry, companySize, yearsInOperation,  \* the form fields
    showAdvanced,   \* the advanced filters are unfolded
    isShareable,    \* the page is not served from a blob: URL
    currentPage,    \* the page of the results table
    state,          \* AppState: results, isLoading, error, hasSearched
    protocol,       \* window.location.protocol
    search,         \* window.location.search without its "?"
    mounted,        \* the effect of the first render has run
    inflight,       \* the calls of fetchBusinessData that have not settled
    issued,         \* how many calls of fetchBusinessData were made
    called,         \* the arguments of the call the latest step made, if any
    settled,        \* the call that settled in the latest step, if any
    csvContent,     \* the content of the file the latest step downloaded, if any
    copied          \* the link the latest step wrote to the clipboard, if any

formVars == <<keyword, city, industry, companySize, yearsInOperation>>
requestVars == <<inflight, issued>>
eventVars == <<called, settled, csvContent, copied>>
appVars == <<formVars, showAdvanced, isShareable, currentPage, state, protocol,
             search, mounted, requestVars, eventVars>>

vars == <<fetchVars, appVars>>

-----------------------------------------------------------------------------
(* Characters and strings *)

BT == "<backtick>"
QUOTE == "\""
LF == "\n"
SP == " "

\* String.prototype.trim and the JSON grammar agree on blank and line feed.
WhiteSpace == {SP, LF}

Digits == {"0", "1", "5"}

\* String.prototype.toLowerCase, atom by atom.
LowerAtom(a) ==
    CASE a = "Unable" -> "unable"
      [] a = "UNABLE" -> "unable"
      [] a = "TO" -> "to"
      [] a = "FULFILL" -> "fulfill"
      [] a = "Cannot" -> "cannot"
      [] a = "I" -> "i"
      [] a = "Here" -> "here"
      [] a = "Acme" -> "acme"
      [] a = "Main" -> "main"
      [] a = "St" -> "st"
      [] a = "N/A" -> "n/a"
      [] a = "A" -> "a"
      [] a = "B" -> "b"
      [] a = "HQ" -> "hq"
      [] OTHER -> a

toLowerCase(s) == [i \in 1..Len(s) |-> LowerAtom(s[i])]

\* s.includes(p)
includes(s, p) ==
    \E i \in 1..(Len(s) + 1) :
        /\ i + Len(p) - 1 <= Len(s)
        /\ SubSeq(s, i, i + Len(p) - 1) = p

\* s.indexOf(c): the first index of c, -1 when there is none.
indexOf(s, c) ==
    IF \E i \in 1..Len(s) : s[i] = c
    THEN (CHOOSE i \in 1..Len(s) : s[i] = c /\ \A j \in 1..(i - 1) : s[j] # c) - 1
    ELSE -1

\* s.lastIndexOf(c): the last index of c, -1 when there is none.
lastIndexOf(s, c) ==
    IF \E i \in 1..Len(s) : s[i] = c
    THEN (CHOOSE i \in 1..Len(s) : s[i] = c /\ \A j \in (i + 1)..Len(s) : s[j] # c) - 1
    ELSE -1

\* s.substring(from, to), for 0 <= from <= to <= s.length.
substring(s, from, to) == SubSeq(s, from + 1, to)

\* s.trim()
RECURSIVE trimStart(_)
trimStart(s) ==
    IF s # <<>> /\ Head(s) \in WhiteSpace THEN trimStart(Tail(s)) ELSE s

RECURSIVE trimEnd(_)
trimEnd(s) ==
    IF s # <<>> /\ s[Len(s)] \in WhiteSpace
    THEN trimEnd(SubSeq(s, 1, Len(s) - 1))
    ELSE s

trim(s) == trimEnd(trimStart(s))

IsFenceAt(s, i) ==
    /\ i + 2 <= Len(s)
    /\ s[i] = BT /\ s[i + 1] = BT /\ s[i + 2] = BT

IsJsonFenceAt(s, i) ==
    /\ IsFenceAt(s, i)
    /\ i + 3 <= Len(s)
    /\ s[i + 3] = "json"

\* s.replace(/```json\n?/g, ''), from position i on: the matches are taken
\* left to right and do not overlap; the line feed after json is part of the
\* match when it is there.
RECURSIVE replaceJsonFence(_, _)
replaceJsonFence(s, i) ==
    LET at == {j \in i..Len(s) : IsJsonFenceAt(s, j)} IN
    IF at = {} THEN SubSeq(s, i, Len(s))
    ELSE LET j == CHOOSE m \in at : \A n \in at : m <= n
             after == IF j + 4 <= Len(s) /\ s[j + 4] = LF THEN j + 5 ELSE j + 4
         IN SubSeq(s, i, j - 1) \o replaceJsonFence(s, after)

\* s.replace(/```/g, ''), from position i on.
RECURSIVE replaceFence(_, _)
replaceFence(s, i) ==
    LET at == {j \in i..Len(s) : IsFenceAt(s, j)} IN
    IF at = {} THEN SubSeq(s, i, Len(s))
    ELSE LET j == CHOOSE m \in at : \A n \in at : m <= n IN
         SubSeq(s, i, j - 1) \o replaceFence(s, j + 3)

-----------------------------------------------------------------------------
(* JSON values and JSON.parse *)

JStr(s) == [t |-> "str", v |-> s]
JNum(d) == [t |-> "num", v |-> d]
JBool(b) == [t |-> "bool", v |-> <<b>>]
JNull == [t |-> "null", v |-> <<>>]
JArr(es) == [t |-> "arr", v |-> es]
\* An object is the sequence of its members [k |-> key, val |-> value].
JObj(ms) == [t |-> "obj", v |-> ms]

ParseFail == [ok |-> FALSE, val |-> JNull, pos |-> 0]
ParseOk(val, pos) == [ok |-> TRUE, val |-> val, pos |-> pos]

RECURSIVE SkipWs(_, _)
SkipWs(s, i) ==
    IF i <= Len(s) /\ s[i] \in WhiteSpace THEN SkipWs(s, i + 1) ELSE i

\* The characters of a string literal up to its closing quote; a raw line
\* feed inside a literal is a syntax error.
RECURSIVE ScanString(_, _, _)
ScanString(s, i, acc) ==
    IF i > Len(s) THEN ParseFail
    ELSE IF s[i] = QUOTE THEN ParseOk(JStr(acc), i + 1)
    ELSE IF s[i] = LF THEN ParseFail
    ELSE ScanString(s, i + 1, Append(acc, s[i]))

\* A number: 0, or a digit other than 0 followed by digits.
RECURSIVE ScanDigits(_, _, _)
ScanDigits(s, i, acc) ==
    IF i <= Len(s) /\ s[i] \in Digits
    THEN ScanDigits(s, i + 1, Append(acc, s[i]))
    ELSE ParseOk(JNum(acc), i)

RECURSIVE ParseValue(_, _)
RECURSIVE ParseElements(_, _, _)
RECURSIVE ParseMembers(_, _, _)

ParseValue(s, i0) ==
    LET i == SkipWs(s, i0) IN
    IF i > Len(s) THEN ParseFail
    ELSE IF s[i] = "[" THEN
        LET j == SkipWs(s, i + 1) IN
        IF j <= Len(s) /\ s[j] = "]" THEN ParseOk(JArr(<<>>), j + 1)
        ELSE ParseElements(s, j, <<>>)
    ELSE IF s[i] = "{" THEN
        LET j == SkipWs(s, i + 1) IN
        IF j <= Len(s) /\ s[j] = "}" THEN ParseOk(JObj(<<>>), j + 1)
        ELSE ParseMembers(s, j, <<>>)
    ELSE IF s[i] = QUOTE THEN ScanString(s, i + 1, <<>>)
    ELSE IF s[i] = "0" THEN ParseOk(JNum(<<"0">>), i + 1)
    ELSE IF s[i] \in Digits THEN ScanDigits(s, i, <<>>)
    ELSE IF s[i] = "true" THEN ParseOk(JBool("true"), i + 1)
    ELSE IF s[i] = "false" THEN ParseOk(JBool("false"), i + 1)
    ELSE IF s[i] = "null" THEN ParseOk(JNull, i + 1)
    ELSE ParseFail

ParseElements(s, i, acc) ==
    LET r == ParseValue(s, i) IN
    IF ~r.ok THEN ParseFail
    ELSE LET j == SkipWs(s, r.pos) IN
         IF j > Len(s) THEN ParseFail
         ELSE IF s[j] = "," THEN ParseElements(s, j + 1, Append(acc, r.val))
         ELSE IF s[j] = "]" THEN ParseOk(JArr(Append(acc, r.val)), j + 1)
         ELSE ParseFail

ParseMembers(s, i0, acc) ==
    LET i == SkipWs(s, i0) IN
    IF i > Len(s) \/ s[i] # QUOTE THEN ParseFail
    ELSE LET k == ScanString(s, i + 1, <<>>) IN
         IF ~k.ok THEN ParseFail
         ELSE LET c == SkipWs(s, k.pos) IN
              IF c > Len(s) \/ s[c] # ":" THEN ParseFail
              ELSE LET r == ParseValue(s, c + 1) IN
                   IF ~r.ok THEN ParseFail
                   ELSE LET j == SkipWs(s, r.pos)
                            ms == Append(acc, [k |-> k.val.v, val |-> r.val])
                        IN IF j > Len(s) THEN ParseFail
                           ELSE IF s[j] = "," THEN ParseMembers(s, j + 1, ms)
                           ELSE IF s[j] = "}" THEN ParseOk(JObj(ms), j + 1)
                           ELSE ParseFail

\* JSON.parse(s): [ok |-> FALSE] stands for the SyntaxError it throws.
JSONParse(s) ==
    LET r == ParseValue(s, 1) IN
    IF r.ok /\ SkipWs(s, r.pos) > Len(s)
    THEN [ok |-> TRUE, val |-> r.val]
    ELSE [ok |-> FALSE, val |-> JNull]

-----------------------------------------------------------------------------
(* sanitizeResult and the filter *)

NA == <<"N/A">>

Undefined == [t |-> "undefined", v |-> <<>>]

\* item[key]: the value of the last member named key (JSON.parse keeps the
\* last of two members of the same name), undefined when there is none or
\* when item is an array.
GetField(item, key) ==
    LET idx == {i \in 1..Len(item.v) : item.v[i].k = <<key>>} IN
    IF item.t = "obj" /\ idx # {}
    THEN item.v[CHOOSE i \in idx : \A j \in idx : j <= i].val
    ELSE Undefined

\* Mutant: the value is taken whatever its type.
StringOrNA_AnyValue(x) == IF x.t # "undefined" THEN x.v ELSE NA

\* typeof x === 'string' ? x : "N/A"
StringOrNA(x) == IF x.t = "str" THEN x.v ELSE NA

\* !item || typeof item !== 'object': null, numbers, strings and booleans;
\* typeof gives 'object' for objects and arrays.
IsNotObject(item) == item.t \notin {"obj", "arr"}

\* Mutant: the name is read from phone and the phone from name.
sanitizeResult_SwappedFields(item) ==
    IF IsNotObject(item)
    THEN [name |-> NA, phone |-> NA, address |-> NA, website |-> NA]
    ELSE [name |-> StringOrNA(GetField(item, "phone")),
          phone |-> StringOrNA(GetField(item, "name")),
          address |-> StringOrNA(GetField(item, "address")),
          website |-> StringOrNA(GetField(item, "website"))]

sanitizeResult(item) ==
    IF IsNotObject(item)
    THEN [name |-> NA, phone |-> NA, address |-> NA, website |-> NA]
    ELSE [name |-> StringOrNA(GetField(item, "name")),
          phone |-> StringOrNA(GetField(item, "phone")),
          address |-> StringOrNA(GetField(item, "address")),
          website |-> StringOrNA(GetField(item, "website"))]

\* A BusinessResult as the JavaScript value it is: an object of four string
\* properties, which is what sanitizeResult is given when it is applied to
\* one of its own results.
toObject(r) ==
    JObj(<<[k |-> <<"name">>, val |-> JStr(r.name)],
           [k |-> <<"phone">>, val |-> JStr(r.phone)],
           [k |-> <<"address">>, val |-> JStr(r.address)],
           [k |-> <<"website">>, val |-> JStr(r.website)]>>)

\* Mutant: the filter also wants an address.
IsComplete_RequiresAddress(r) ==
    r.name # NA /\ r.phone # NA /\ r.website # NA /\ r.address # NA

\* The predicate of results.filter(...).
IsComplete(r) == r.name # NA /\ r.phone # NA /\ r.website # NA

filterResults(rs) == SelectSeq(rs, IsComplete)

-----------------------------------------------------------------------------
(* The steps of fetchBusinessData on the model's text *)

\* text.replace(/```json\n?/g, '').replace(/```/g, '').trim()
stripFences(t) == trim(replaceFence(replaceJsonFence(t, 1), 1))

\* Mutant: no span is cut out, the stripped text is parsed as it is.
extractJson_NoSpan(t) == t

\* Mutant: the array span ends at the first ']' instead of the last.
extractJson_FirstClosing(t) ==
    LET firstBracket == indexOf(t, "[")
        lastBracket == indexOf(t, "]")
        firstCurly == indexOf(t, "{")
        lastCurly == lastIndexOf(t, "}")
    IN IF firstBracket # -1 /\ lastBracket # -1 /\ lastBracket > firstBracket
       THEN substring(t, firstBracket, lastBracket + 1)
       ELSE IF firstCurly # -1 /\ lastCurly # -1 /\ lastCurly > firstCurly
            THEN substring(t, firstCurly, lastCurly + 1)
            ELSE t

\* The span from the first '[' to the last ']', else the span from the first
\* '{' to the last '}', else the text as it is.
extractJson(t) ==
    LET firstBracket == indexOf(t, "[")
        lastBracket == lastIndexOf(t, "]")
        firstCurly == indexOf(t, "{")
        lastCurly == lastIndexOf(t, "}")
    IN IF firstBracket # -1 /\ lastBracket # -1 /\ lastBracket > firstBracket
       THEN substring(t, firstBracket, lastBracket + 1)
       ELSE IF firstCurly # -1 /\ lastCurly # -1 /\ lastCurly > firstCurly
            THEN substring(t, firstCurly, lastCurly + 1)
            ELSE t

\* The local `results` after the normalisation of the parsed value.
normalize(parsed) ==
    IF parsed.t = "arr"
    THEN [i \in 1..Len(parsed.v) |-> sanitizeResult(parsed.v[i])]
    ELSE IF parsed.t = "obj" THEN <<sanitizeResult(parsed)>>
    ELSE <<>>

RefusalUnable == <<"unable", SP, "to", SP, "fulfill">>
RefusalCannot == <<"cannot", SP, "confidently", SP, "provide">>

\* Mutant: the phrases are looked for without toLowerCase.
isRefusal_CaseSensitive(t) ==
    includes(t, RefusalUnable) \/ includes(t, RefusalCannot)

isRefusal(t) ==
    \/ includes(toLowerCase(t), RefusalUnable)
    \/ includes(toLowerCase(t), RefusalCannot)

CriteriaTooStrictMessage ==
    <<"Criteria too strict",
      ". The AI could not find enough matching businesses. Please try relaxing your advanced filters (e.g., 'Years in Operation').">>
MalformedMessage ==
    <<"Received ", "malformed data",
      " from AI. Please try again or relax your search filters.">>
FetchFailedMessage == <<"Failed to fetch business data. Please try again.">>

\* The message of the error the inner catch throws.
parseErrorMessage(t) ==
    IF isRefusal(t) THEN CriteriaTooStrictMessage ELSE MalformedMessage

\* Mutant: the outer catch turns every error into the generic one.
outerCatch_AlwaysGeneric(message) == FetchFailedMessage

\* The outer catch: an error whose message names one of the two parse errors
\* is thrown again as it is, every other one becomes the generic error.
outerCatch(message) ==
    IF /\ message # <<>>
       /\ \/ includes(message, <<"Criteria too strict">>)
          \/ includes(message, <<"malformed data">>)
    THEN message
    ELSE FetchFailedMessage

Pending == [kind |-> "pending", records |-> <<>>, message |-> <<>>]
Returned(rs) == [kind |-> "returned", records |-> rs, message |-> <<>>]
Thrown(m) == [kind |-> "thrown", records |-> <<>>, message |-> m]

-----------------------------------------------------------------------------
(* The answers of the model: what response.text can hold *)

\* The longest array of records an answer holds.
MaxElems == 2

Absent == [t |-> "absent", v |-> <<>>]

\* JSON.stringify, without the members that are absent.
RECURSIVE Render(_)
RECURSIVE RenderList(_)
RECURSIVE RenderMembers(_)
Render(x) ==
    CASE x.t = "str" -> <<QUOTE>> \o x.v \o <<QUOTE>>
      [] x.t = "num" -> x.v
      [] x.t = "bool" -> x.v
      [] x.t = "null" -> <<"null">>
      [] x.t = "arr" -> <<"[">> \o RenderList(x.v) \o <<"]">>
      [] x.t = "obj" -> <<"{">> \o RenderMembers(x.v) \o <<"}">>
RenderList(xs) ==
    IF xs = <<>> THEN <<>>
    ELSE IF Len(xs) = 1 THEN Render(xs[1])
    ELSE Render(xs[1]) \o <<",">> \o RenderList(Tail(xs))
RenderMembers(ms) ==
    IF ms = <<>> THEN <<>>
    ELSE IF Len(ms) = 1 THEN <<QUOTE>> \o ms[1].k \o <<QUOTE, ":">> \o Render(ms[1].val)
    ELSE <<QUOTE>> \o ms[1].k \o <<QUOTE, ":">> \o Render(ms[1].val)
         \o <<",">> \o RenderMembers(Tail(ms))

Member(key, val) == IF val = Absent THEN <<>> ELSE <<[k |-> <<key>>, val |-> val]>>

MkObject(n, p, a, w, x) ==
    JObj(Member("name", n) \o Member("phone", p) \o Member("address", a)
         \o Member("website", w) \o Member("tags", x))

NameVals ==
    { JStr(<<"Acme">>), JStr(NA), JStr(<<>>),
      JStr(<<"A", "[", "HQ", "]">>),          \* a name with brackets
      JStr(<<"A", BT, BT, BT, "B">>),         \* a name with three backticks
      JNum(<<"5">>), Absent }
PhoneVals == { JStr(<<"5", "5", "5">>), JStr(NA), JNull }
AddressVals == { JStr(<<"1", SP, "Main", SP, "St">>), JStr(NA), Absent }
WebsiteVals == { JStr(<<"a.com">>), JStr(NA), JBool("true") }
TagsVals == { Absent, JArr(<<JStr(<<"x">>)>>) }

Objects ==
    { MkObject(n, p, a, w, x) :
        n \in NameVals, p \in PhoneVals, a \in AddressVals,
        w \in WebsiteVals, x \in TagsVals }

\* Values that are no objects.
NonObjects ==
    { JNum(<<"5">>), JNum(<<"0">>), JStr(<<"hi">>), JStr(<<>>),
      JBool("true"), JBool("false"), JNull }

GoodRecord ==
    MkObject(JStr(<<"Acme">>), JStr(<<"5", "5", "5">>),
             JStr(<<"1", SP, "Main", SP, "St">>), JStr(<<"a.com">>), Absent)
NoAddressRecord ==
    MkObject(JStr(<<"B">>), JStr(<<"5", "5", "1">>), JStr(NA),
             JStr(<<"b.com">>), Absent)
NoPhoneRecord ==
    MkObject(JStr(<<"Acme">>), JStr(NA), JStr(NA), JStr(<<"a.com">>), Absent)
BacktickRecord ==
    MkObject(JStr(<<"A", BT, BT, BT, "B">>), JStr(<<"5", "5", "5">>),
             JStr(<<"1", SP, "Main", SP, "St">>), JStr(<<"a.com">>), Absent)

\* The elements of the arrays of more than one element.
Elems == { GoodRecord, NoAddressRecord, NoPhoneRecord, BacktickRecord, JNull }

RECURSIVE SeqsUpTo(_, _)
SeqsUpTo(S, n) ==
    IF n = 0 THEN { <<>> }
    ELSE LET shorter == SeqsUpTo(S, n - 1) IN
         shorter \cup { Append(q, e) : q \in {r \in shorter : Len(r) = n - 1}, e \in S }

Arrays ==
    { JArr(es) : es \in SeqsUpTo(Elems, MaxElems) }
    \cup { JArr(<<e>>) : e \in Objects \cup NonObjects \cup {JArr(<<>>)} }

\* A payload is a JSON value, or a text that is no JSON.
Json(x) == x
Raw(t) == [t |-> "raw", v |-> t]

\* Answers that are no JSON: nothing, prose, a refusal, a cut array.
RawTexts ==
    { <<>>,
      <<"sorry">>,
      <<"[", "this", "]">>,
      <<"{", "oops", "}">>,
      <<"[", "{", QUOTE, "name", QUOTE, ":", QUOTE, "Acme", QUOTE>>,
      <<"]", SP, "{", "}", SP, "[">>,
      <<"[", LF, SP, "{", SP, QUOTE, "name", QUOTE, SP, ":", SP, QUOTE, "Acme", QUOTE,
        SP, ",", LF, QUOTE, "phone", QUOTE, ":", "1", "5", "}", LF, ",", SP, "0", LF, "]">>,
      <<"unable", SP, "to", SP, "fulfill">>,
      <<"UNABLE", SP, "TO", SP, "FULFILL">>,
      <<"Cannot", SP, "confidently", SP, "provide">> }

JsonPayloads == { Json(x) : x \in Arrays \cup Objects \cup NonObjects }
RawPayloads == { Raw(t) : t \in RawTexts }

\* The payloads that are also put between prose.
ProsePayloads ==
    { Json(JArr(es)) : es \in SeqsUpTo(Elems, MaxElems) }
    \cup { Json(x) : x \in NonObjects \cup {GoodRecord, NoPhoneRecord} }
    \cup RawPayloads

PayloadText(p) == IF p.t = "raw" THEN p.v ELSE Render(p)

Fence(open, close) == [open |-> open, close |-> close]
NoFence == Fence(<<>>, <<>>)
JsonFence == Fence(<<BT, BT, BT, "json", LF>>, <<LF, BT, BT, BT>>)
JsonInlineFence == Fence(<<BT, BT, BT, "json">>, <<BT, BT, BT>>)
PlainFence == Fence(<<BT, BT, BT, LF>>, <<LF, BT, BT, BT>>)
OtherFence == Fence(<<BT, BT, BT, "js", LF>>, <<LF, BT, BT, BT>>)
\* The tag json5: the first replace takes its first four letters.
Json5Fence == Fence(<<BT, BT, BT, "json", "5", LF>>, <<LF, BT, BT, BT>>)
Fences == { JsonFence, JsonInlineFence, PlainFence, OtherFence, Json5Fence }

Intros ==
    { <<>>,
      <<SP, LF>>,
      <<"Here", ":", LF>>,
      <<"see", "]", SP>>,
      <<"[", "1", "]", SP>>,
      <<"I", SP, "am", SP, "unable", SP, "to", SP, "fulfill", SP, "this", ".", SP>> }
Outros ==
    { <<>>,
      <<LF, "done", ".">>,
      <<SP, "[", "note">>,
      <<SP, "[", "1", "]">>,
      <<SP, "Cannot", SP, "confidently", SP, "provide", SP, "more", ".">> }

Shape(intro, fence, payload, outro) ==
    [intro |-> intro, fence |-> fence, payload |-> payload, outro |-> outro]

Shapes ==
    { Shape(<<>>, f, p, <<>>) :
        f \in Fences \cup {NoFence}, p \in JsonPayloads \cup RawPayloads }
    \cup { Shape(i, f, p, o) :
             i \in Intros, f \in {NoFence, JsonFence}, p \in ProsePayloads, o \in Outros }

ShapeText(sh) ==
    sh.intro \o sh.fence.open \o PayloadText(sh.payload) \o sh.fence.close \o sh.outro

NoShape == Shape(<<>>, NoFence, Raw(<<>>), <<>>)

\* The messages of the errors generateContent rejects with; <<>> stands for
\* an error without a message.
UpstreamMessages ==
    { <<>>,
      <<"Network error">>,
      <<"quota exceeded: ", "Criteria too strict">>,
      <<"upstream sent ", "malformed data">> }

Resolved(hasText, t) ==
    [status |-> "resolved", hasText |-> hasText, text |-> t, message |-> <<>>]
Rejected(m) ==
    [status |-> "rejected", hasText |-> FALSE, text |-> <<>>, message |-> m]

-----------------------------------------------------------------------------
(* The search page (src/App.tsx): its values and its pure operators.  A     *)
(* form field, a query parameter and a message are texts; the characters   *)
(* the query string gives a meaning to ("&", "=", "+", "%", the blank) are  *)
(* atoms of their own, and so is each of their encoded forms.              *)

ITEMS_PER_PAGE == 10

\* useState<AppState>({...}): error is null or the text of a message.
initialState ==
    [results |-> <<>>, isLoading |-> FALSE, error |-> JNull, hasSearched |-> FALSE]

\* (err && err.message) || String(err) || "An unexpected error occurred.";
\* String(err) of an Error without message is "Error".
errorText(message) == IF message # <<>> THEN JStr(message) ELSE JStr(<<"Error">>)

\* x is a string and not the empty one: what `x && ...` and `x || ''` test.
truthy(x) == x.t = "str" /\ x.v # <<>>

orEmpty(x) == IF truthy(x) THEN x.v ELSE <<>>

\* Array.prototype.join
RECURSIVE join(_, _)
join(parts, sep) ==
    IF parts = <<>> THEN <<>>
    ELSE IF Len(parts) = 1 THEN parts[1]
    ELSE parts[1] \o <<sep>> \o join(Tail(parts), sep)

\* The pieces of s between the atoms sep.
RECURSIVE split(_, _)
split(s, sep) ==
    LET at == {i \in 1..Len(s) : s[i] = sep} IN
    IF at = {} THEN <<s>>
    ELSE LET i == CHOOSE k \in at : \A j \in at : k <= j IN
         <<SubSeq(s, 1, i - 1)>> \o split(SubSeq(s, i + 1, Len(s)), sep)

\* The application/x-www-form-urlencoded serializer and parser of
\* URLSearchParams, atom by atom.
encodeAtom(a) ==
    CASE a = SP -> "+"
      [] a = "&" -> "%26"
      [] a = "=" -> "%3D"
      [] a = "+" -> "%2B"
      [] a = "%" -> "%25"
      [] OTHER -> a

decodeAtom(a) ==
    CASE a = "+" -> SP
      [] a = "%26" -> "&"
      [] a = "%3D" -> "="
      [] a = "%2B" -> "+"
      [] a = "%25" -> "%"
      [] OTHER -> a

encode(v) == [i \in 1..Len(v) |-> encodeAtom(v[i])]
decode(v) == [i \in 1..Len(v) |-> decodeAtom(v[i])]

\* new URLSearchParams(search): the list of the name-value pairs.
parsePair(piece) ==
    LET at == {i \in 1..Len(piece) : piece[i] = "="} IN
    IF at = {} THEN [k |-> decode(piece), v |-> <<>>]
    ELSE LET i == CHOOSE k \in at : \A j \in at : k <= j IN
         [k |-> decode(SubSeq(piece, 1, i - 1)),
          v |-> decode(SubSeq(piece, i + 1, Len(piece)))]

parseQuery(s) ==
    LET NotEmpty(piece) == piece # <<>>
        pieces == SelectSeq(split(s, "&"), NotEmpty)
    IN [i \in 1..Len(pieces) |-> parsePair(pieces[i])]

\* URLSearchParams.toString
serialize(params) ==
    join([i \in 1..Len(params) |->
             encode(params[i].k) \o <<"=">> \o encode(params[i].v)], "&")

\* URLSearchParams.get: the first value of the name, null without one.
get(params, name) ==
    LET at == {i \in 1..Len(params) : params[i].k = <<name>>} IN
    IF at = {} THEN JNull
    ELSE JStr(params[CHOOSE k \in at : \A j \in at : k <= j].v)

\* URLSearchParams.delete
delete(params, name) ==
    LET Other(p) == p.k # <<name>> IN SelectSeq(params, Other)

\* URLSearchParams.set: the first pair of the name gets the value and the
\* other ones go; a new name is appended.
set(params, name, value) ==
    LET at == {i \in 1..Len(params) : params[i].k = <<name>>} IN
    IF at = {} THEN Append(params, [k |-> <<name>>, v |-> value])
    ELSE LET first == CHOOSE k \in at : \A j \in at : k <= j
             kept == {i \in 1..Len(params) : i = first \/ i \notin at}
             Nth(n) == CHOOSE i \in kept : Cardinality({j \in kept : j <= i}) = n
         IN [n \in 1..Cardinality(kept) |->
                IF Nth(n) = first THEN [k |-> <<name>>, v |-> value]
                ELSE params[Nth(n)]]

setOrDelete(params, name, value) ==
    IF value # <<>> THEN set(params, name, value) ELSE delete(params, name)

\* The query string handleSearch pushes.
searchParamsOfForm(s, k, c, i, sz, y) ==
    serialize(
        setOrDelete(
            setOrDelete(
                setOrDelete(
                    set(set(parseQuery(s), "keyword", k), "city", c),
                    "industry", i),
                "size", sz),
            "years", y))

\* The query string of the link handleShareLink copies: the parameters of
\* the address bar with those of the non-empty fields set.
shareLinkOfForm(s, k, c, i, sz, y) ==
    LET p0 == parseQuery(s)
        SetIfAny(p, name, v) == IF v # <<>> THEN set(p, name, v) ELSE p
    IN IF k # <<>> /\ c # <<>>
       THEN serialize(
                SetIfAny(SetIfAny(SetIfAny(
                    set(set(p0, "keyword", k), "city", c),
                    "industry", i), "size", sz), "years", y))
       ELSE serialize(p0)

\* The query string handleClearSearch pushes.
searchParamsCleared(s) ==
    serialize(
        delete(delete(delete(delete(delete(parseQuery(s),
            "keyword"), "city"), "industry"), "size"), "years"))

\* The arguments of one call of fetchBusinessData.
Request(k, c, i, sz, y) ==
    [keyword |-> k, city |-> c, industry |-> i, companySize |-> sz,
     yearsInOperation |-> y]

NoRequest == Request(<<>>, <<>>, <<>>, <<>>, <<>>)

\* A call that settles: its number and what it settles with.
Settled(id, o) == [id |-> id, outcome |-> o]
NoResponse == Settled(0, Pending)

\* replace(/"/g, '""')
RECURSIVE doubleQuotes(_)
doubleQuotes(v) ==
    IF v = <<>> THEN <<>>
    ELSE IF Head(v) = QUOTE THEN <<QUOTE, QUOTE>> \o doubleQuotes(Tail(v))
    ELSE <<Head(v)>> \o doubleQuotes(Tail(v))

\* Mutant: the value goes between the quotes as it is.
csvField_NoDoubling(v) == <<QUOTE>> \o v \o <<QUOTE>>

\* `"${(v || '').replace(/"/g, '""')}"`
csvField(v) == <<QUOTE>> \o doubleQuotes(v) \o <<QUOTE>>

csvHeaders == <<<<"Business Name">>, <<"Phone">>, <<"Address">>, <<"Website">>>>

csvRow(r) ==
    join(<<csvField(r.name), csvField(r.phone), csvField(r.address),
           csvField(r.website)>>, ",")

\* [headers.join(','), ...rows.map(e => e.join(','))].join('\n')
csvOf(rs) ==
    join(<<join(csvHeaders, ",")>> \o [i \in 1..Len(rs) |-> csvRow(rs[i])], LF)

\* Math.ceil(state.results.length / ITEMS_PER_PAGE)
totalPages(rs) == (Len(rs) + ITEMS_PER_PAGE - 1) \div ITEMS_PER_PAGE

\* state.results.slice(indexOfFirstItem, indexOfLastItem): the records of
\* the page, none when the page starts after the last record.
currentItems(rs, page) ==
    LET indexOfLastItem == page * ITEMS_PER_PAGE
        indexOfFirstItem == indexOfLastItem - ITEMS_PER_PAGE
        last == IF indexOfLastItem < Len(rs) THEN indexOfLastItem ELSE Len(rs)
    IN SubSeq(rs, indexOfFirstItem + 1, last)

\* {biz?.name || 'N/A'}: the text of a name or phone cell of the table.
cellText(v) == IF v # <<>> THEN v ELSE NA

-----------------------------------------------------------------------------
(* The page's environment: what the user types, what the address bar holds *)
(* when the page is opened, what a call of fetchBusinessData settles with. *)

MaxRequests == 2

Keywords == {<<>>, <<SP>>, <<"fish", "&", "chips">>}
Cities == {<<>>, <<SP>>, <<"New", SP, "York">>}
Industries == {<<>>, <<"R", "=", "D">>}
Sizes == {<<>>, <<"50", "+">>}
Years == {<<>>, <<"100", "%">>}

Business(n, p, a, w) == [name |-> n, phone |-> p, address |-> a, website |-> w]

QuotedRecord ==
    Business(<<"Joe's", SP, QUOTE, "Best", QUOTE>>, <<"555">>,
             <<"1", SP, "Main", ",", LF, "Rome">>, <<"a.com">>)

\* A name of two double quotes, no address, the empty string for a website.
TwoQuotesRecord == Business(<<QUOTE, QUOTE>>, <<"555">>, NA, <<>>)

SmallList == <<QuotedRecord, TwoQuotesRecord>>

\* One record more than a page holds.
LargeList ==
    [i \in 1..(ITEMS_PER_PAGE + 1) |->
        Business(<<"Biz", ToString(i)>>, <<"555">>, NA, <<"a.com">>)]

ResultLists == {<<>>, SmallList, LargeList}

\* The messages fetchBusinessData throws with.
ErrorMessages == {FetchFailedMessage, CriteriaTooStrictMessage}

\* A link somebody shared: a keyword, a city and the years.
SharedLink ==
    searchParamsOfForm(<<>>, <<"fish", "&", "chips">>, <<"New", SP, "York">>,
                       <<>>, <<>>, <<"100", "%">>)

\* A link with a keyword that is one blank.
BlankLink ==
    searchParamsOfForm(<<>>, <<SP>>, <<"New", SP, "York">>, <<>>, <<>>, <<>>)

\* The page before its first effect: the useState initial values.
AppInitial(proto, query) ==
    /\ keyword = <<>>
    /\ city = <<>>
    /\ industry = <<>>
    /\ companySize = <<>>
    /\ yearsInOperation = <<>>
    /\ showAdvanced = FALSE
    /\ isShareable = FALSE
    /\ currentPage = 1
    /\ state = initialState
    /\ protocol = proto
    /\ search = query
    /\ mounted = FALSE
    /\ inflight = {}
    /\ issued = 0
    /\ called = NoRequest
    /\ settled = NoResponse
    /\ csvContent = <<>>
    /\ copied = JNull

-----------------------------------------------------------------------------
(* fetchBusinessData as a state machine *)

Init ==
    /\ \/ /\ shape \in Shapes
          /\ response = Resolved(TRUE, ShapeText(shape))
       \/ /\ shape = NoShape
          /\ response \in {Resolved(FALSE, <<>>)} \cup {Rejected(m) : m \in UpstreamMessages}
    /\ pc = "await"
    /\ text = <<>>
    /\ results = <<>>
    /\ outcome = Pending
    /\ AppInitial("https:", <<>>)

\* Mutant: no `if (!text) return []`; text.replace throws on an absent text
\* and the outer catch turns that into the generic error.
Respond_NoEmptyCheck ==
    /\ pc = "await"
    /\ response.status = "resolved"
    /\ text' = response.text
    /\ IF ~response.hasText
       THEN pc' = "done" /\ outcome' = Thrown(FetchFailedMessage)
       ELSE pc' = "strip" /\ outcome' = outcome
    /\ UNCHANGED <<response, shape, results>>
    /\ UNCHANGED appVars

\* await generateContent resolves; `if (!text) return []`.
Respond ==
    /\ pc = "await"
    /\ response.status = "resolved"
    /\ text' = response.text
    /\ IF ~response.hasText \/ response.text = <<>>
       THEN pc' = "done" /\ outcome' = Returned(<<>>)
       ELSE pc' = "strip" /\ outcome' = outcome
    /\ UNCHANGED <<response, shape, results>>
    /\ UNCHANGED appVars

\* await generateContent rejects: the outer catch.
Reject ==
    /\ pc = "await"
    /\ response.status = "rejected"
    /\ pc' = "done"
    /\ outcome' = Thrown(outerCatch(response.message))
    /\ UNCHANGED <<response, shape, text, results>>
    /\ UNCHANGED appVars

StripFences ==
    /\ pc = "strip"
    /\ text' = stripFences(text)
    /\ pc' = "extract"
    /\ UNCHANGED <<response, shape, results, outcome>>
    /\ UNCHANGED appVars

ExtractJson ==
    /\ pc = "extract"
    /\ text' = extractJson(text)
    /\ pc' = "parse"
    /\ UNCHANGED <<response, shape, results, outcome>>
    /\ UNCHANGED appVars

\* Mutant: a parsed value that is neither an array nor an object is treated
\* as malformed data.
ParseAndFilter_RejectsPrimitives ==
    /\ pc = "parse"
    /\ pc' = "done"
    /\ IF text = <<>>
       THEN results' = results /\ outcome' = Returned(<<>>)
       ELSE LET parsed == JSONParse(text) IN
            IF parsed.ok /\ parsed.val.t \in {"arr", "obj"}
            THEN /\ results' = normalize(parsed.val)
                 /\ outcome' = Returned(filterResults(normalize(parsed.val)))
            ELSE /\ results' = results
                 /\ outcome' = Thrown(outerCatch(parseErrorMessage(text)))
    /\ UNCHANGED <<response, shape, text>>
    /\ UNCHANGED appVars

\* The inner try and its catch, and the outer catch its throw goes through.
ParseAndFilter ==
    /\ pc = "parse"
    /\ pc' = "done"
    /\ IF text = <<>>
       THEN results' = results /\ outcome' = Returned(<<>>)
       ELSE LET parsed == JSONParse(text) IN
            IF parsed.ok
            THEN /\ results' = normalize(parsed.val)
                 /\ outcome' = Returned(filterResults(normalize(parsed.val)))
            ELSE /\ results' = results
                 /\ outcome' = Thrown(outerCatch(parseErrorMessage(text)))
    /\ UNCHANGED <<response, shape, text>>
    /\ UNCHANGED appVars

Next == Respond \/ Reject \/ StripFences \/ ExtractJson \/ ParseAndFilter

Spec == Init /\ [][Next]_vars

-----------------------------------------------------------------------------
(* fetchBusinessData on a text t, in one piece: what the caller gets when    *)
(* response.text is t.                                                      *)

processText(t) ==
    IF t = <<>> THEN Returned(<<>>)
    ELSE LET cleaned == extractJson(stripFences(t)) IN
         IF cleaned = <<>> THEN Returned(<<>>)
         ELSE LET parsed == JSONParse(cleaned) IN
              IF parsed.ok
              THEN Returned(filterResults(normalize(parsed.val)))
              ELSE Thrown(outerCatch(parseErrorMessage(cleaned)))

-----------------------------------------------------------------------------
(* The search page as a state machine.  A handler runs to its end or to    *)
(* its await in one step; what follows the await of line 90 is a step of   *)
(* its own, taken when the call settles.                                   *)

\* Everything but the form fields.
pageVars == <<showAdvanced, isShareable, currentPage, state, protocol, search,
              mounted, requestVars, fetchVars>>

\* The step makes no call, no call settles in it and it downloads and
\* copies nothing.
noEvent ==
    /\ called' = NoRequest
    /\ settled' = NoResponse
    /\ csvContent' = <<>>
    /\ copied' = JNull

\* The results table is on the screen.
tableShown == ~state.isLoading /\ state.hasSearched /\ Len(state.results) > 0

\* Mutant: the search starts without emptying the list and without going
\* back to the first page.
performSearch_KeepsResults(k, c, i, sz, y) ==
    IF trim(k) = <<>> \/ trim(c) = <<>>
    THEN /\ called' = NoRequest
         /\ UNCHANGED <<state, currentPage, inflight, issued>>
    ELSE /\ issued < MaxRequests
         /\ state' = [state EXCEPT !.isLoading = TRUE, !.error = JNull,
                                   !.hasSearched = TRUE]
         /\ currentPage' = currentPage
         /\ issued' = issued + 1
         /\ inflight' = inflight \cup {issued + 1}
         /\ called' = Request(k, c, i, sz, y)

\* Mutant: no guard of line 84, a search starts whatever the keyword and
\* the city are.
performSearch_NoBlankGuard(k, c, i, sz, y) ==
    /\ issued < MaxRequests
    /\ state' = [state EXCEPT !.isLoading = TRUE, !.error = JNull,
                              !.hasSearched = TRUE, !.results = <<>>]
    /\ currentPage' = 1
    /\ issued' = issued + 1
    /\ inflight' = inflight \cup {issued + 1}
    /\ called' = Request(k, c, i, sz, y)

\* performSearch up to its await: the guard of line 84, the two state
\* updates and the call of fetchBusinessData.
performSearch(k, c, i, sz, y) ==
    IF trim(k) = <<>> \/ trim(c) = <<>>
    THEN /\ called' = NoRequest
         /\ UNCHANGED <<state, currentPage, inflight, issued>>
    ELSE /\ issued < MaxRequests
         /\ state' = [state EXCEPT !.isLoading = TRUE, !.error = JNull,
                                   !.hasSearched = TRUE, !.results = <<>>]
         /\ currentPage' = 1
         /\ issued' = issued + 1
         /\ inflight' = inflight \cup {issued + 1}
         /\ called' = Request(k, c, i, sz, y)

\* The effect of the first render: the environment and the URL parameters.
Mount ==
    /\ ~mounted
    /\ mounted' = TRUE
    /\ isShareable' = (protocol # "blob:")
    /\ LET params == parseQuery(search)
           urlKeyword == get(params, "keyword")
           urlCity == get(params, "city")
           urlIndustry == orEmpty(get(params, "industry"))
           urlSize == orEmpty(get(params, "size"))
           urlYears == orEmpty(get(params, "years"))
       IN IF truthy(urlKeyword) /\ truthy(urlCity)
          THEN /\ keyword' = urlKeyword.v
               /\ city' = urlCity.v
               /\ industry' = urlIndustry
               /\ companySize' = urlSize
               /\ yearsInOperation' = urlYears
               /\ showAdvanced' =
                    IF urlIndustry # <<>> \/ urlSize # <<>> \/ urlYears # <<>>
                    THEN TRUE ELSE showAdvanced
               /\ performSearch(urlKeyword.v, urlCity.v, urlIndustry, urlSize, urlYears)
          ELSE /\ called' = NoRequest
               /\ UNCHANGED <<formVars, showAdvanced, state, currentPage,
                              inflight, issued>>
    /\ settled' = NoResponse
    /\ csvContent' = <<>>
    /\ copied' = JNull
    /\ UNCHANGED <<protocol, search, fetchVars>>

\* The user types in a field (or picks a city from the suggestions).
setKeyword ==
    /\ mounted
    /\ \E v \in Keywords \ {keyword} : keyword' = v
    /\ noEvent
    /\ UNCHANGED <<city, industry, companySize, yearsInOperation, pageVars>>

setCity ==
    /\ mounted
    /\ \E v \in Cities \ {city} : city' = v
    /\ noEvent
    /\ UNCHANGED <<keyword, industry, companySize, yearsInOperation, pageVars>>

setIndustry ==
    /\ mounted
    /\ \E v \in Industries \ {industry} : industry' = v
    /\ noEvent
    /\ UNCHANGED <<keyword, city, companySize, yearsInOperation, pageVars>>

setCompanySize ==
    /\ mounted
    /\ \E v \in Sizes \ {companySize} : companySize' = v
    /\ noEvent
    /\ UNCHANGED <<keyword, city, industry, yearsInOperation, pageVars>>

setYearsInOperation ==
    /\ mounted
    /\ \E v \in Years \ {yearsInOperation} : yearsInOperation' = v
    /\ noEvent
    /\ UNCHANGED <<keyword, city, industry, companySize, pageVars>>

\* The submit of the form; its button is disabled while a search is loading
\* and while the keyword or the city is the empty string.
handleSearch ==
    /\ mounted
    /\ ~state.isLoading /\ keyword # <<>> /\ city # <<>>
    /\ search' = IF isShareable
                 THEN searchParamsOfForm(search, keyword, city, industry,
                                         companySize, yearsInOperation)
                 ELSE search
    /\ performSearch(keyword, city, industry, companySize, yearsInOperation)
    /\ settled' = NoResponse
    /\ csvContent' = <<>>
    /\ copied' = JNull
    /\ UNCHANGED <<formVars, showAdvanced, isShareable, protocol, mounted, fetchVars>>

\* The Clear button, disabled while keyword and city are both empty.
handleClearSearch ==
    /\ mounted
    /\ keyword # <<>> \/ city # <<>>
    /\ keyword' = <<>>
    /\ city' = <<>>
    /\ industry' = <<>>
    /\ companySize' = <<>>
    /\ yearsInOperation' = <<>>
    /\ showAdvanced' = FALSE
    /\ state' = initialState
    /\ currentPage' = 1
    /\ search' = IF isShareable THEN searchParamsCleared(search) ELSE search
    /\ noEvent
    /\ UNCHANGED <<isShareable, protocol, mounted, requestVars, fetchVars>>

\* Mutant: a response is dropped unless it is the one of the latest call.
SearchSucceeds_DropsStale ==
    /\ \E id \in inflight, data \in ResultLists :
          /\ inflight' = inflight \ {id}
          /\ settled' = Settled(id, Returned(data))
          /\ state' = IF id = issued
                      THEN [state EXCEPT !.results = data, !.isLoading = FALSE]
                      ELSE state
    /\ called' = NoRequest
    /\ csvContent' = <<>>
    /\ copied' = JNull
    /\ UNCHANGED <<formVars, showAdvanced, isShareable, currentPage, protocol,
                   search, mounted, issued, fetchVars>>

\* A call of fetchBusinessData returns one of the lists: line 95.
SearchReturns(lists) ==
    /\ \E id \in inflight, data \in lists :
          /\ inflight' = inflight \ {id}
          /\ settled' = Settled(id, Returned(data))
          /\ state' = [state EXCEPT !.results = data, !.isLoading = FALSE]
    /\ called' = NoRequest
    /\ csvContent' = <<>>
    /\ copied' = JNull
    /\ UNCHANGED <<formVars, showAdvanced, isShareable, currentPage, protocol,
                   search, mounted, issued, fetchVars>>

SearchSucceeds == SearchReturns(ResultLists)

\* The same with one list only, for the behaviours in which the records do
\* not matter.
SearchAnswers == SearchReturns({SmallList})

\* Mutant: a failed call is made again.
SearchFails_Retries ==
    /\ \E id \in inflight, message \in ErrorMessages :
          /\ issued < MaxRequests
          /\ inflight' = (inflight \ {id}) \cup {issued + 1}
          /\ issued' = issued + 1
          /\ settled' = Settled(id, Thrown(message))
          /\ state' = state
    /\ called' = NoRequest
    /\ csvContent' = <<>>
    /\ copied' = JNull
    /\ UNCHANGED <<formVars, showAdvanced, isShareable, currentPage, protocol,
                   search, mounted, fetchVars>>

\* A call of fetchBusinessData throws: the catch of lines 96-102.
SearchFails ==
    /\ \E id \in inflight, message \in ErrorMessages :
          /\ inflight' = inflight \ {id}
          /\ settled' = Settled(id, Thrown(message))
          /\ state' = [state EXCEPT !.isLoading = FALSE, !.error = errorText(message)]
          /\ issued' = issued
    /\ called' = NoRequest
    /\ csvContent' = <<>>
    /\ copied' = JNull
    /\ UNCHANGED <<formVars, showAdvanced, isShareable, currentPage, protocol,
                   search, mounted, fetchVars>>

toggleAdvanced ==
    /\ mounted
    /\ showAdvanced' = ~showAdvanced
    /\ noEvent
    /\ UNCHANGED <<formVars, isShareable, currentPage, state, protocol, search,
                   mounted, requestVars, fetchVars>>

nextPage ==
    /\ mounted
    /\ tableShown
    /\ currentPage < totalPages(state.results)
    /\ currentPage' = currentPage + 1
    /\ noEvent
    /\ UNCHANGED <<formVars, showAdvanced, isShareable, state, protocol, search,
                   mounted, requestVars, fetchVars>>

prevPage ==
    /\ mounted
    /\ tableShown
    /\ currentPage > 1
    /\ currentPage' = currentPage - 1
    /\ noEvent
    /\ UNCHANGED <<formVars, showAdvanced, isShareable, state, protocol, search,
                   mounted, requestVars, fetchVars>>

\* The handler of the CSV button, whenever it is called.
handleDownloadCSV ==
    /\ mounted
    /\ csvContent' = IF Len(state.results) = 0 THEN <<>>
                     ELSE csvOf(state.results)
    /\ called' = NoRequest
    /\ settled' = NoResponse
    /\ copied' = JNull
    /\ UNCHANGED <<formVars, showAdvanced, isShareable, currentPage, state,
                   protocol, search, mounted, requestVars, fetchVars>>

\* The Share Search button, shown when keyword and city are not empty in a
\* shareable environment; the clipboard takes the link.
handleShareLink ==
    /\ mounted
    /\ keyword # <<>> /\ city # <<>> /\ isShareable
    /\ copied' = JStr(shareLinkOfForm(search, keyword, city, industry,
                                      companySize, yearsInOperation))
    /\ called' = NoRequest
    /\ settled' = NoResponse
    /\ csvContent' = <<>>
    /\ UNCHANGED <<formVars, showAdvanced, isShareable, currentPage, state,
                   protocol, search, mounted, requestVars, fetchVars>>

\* The page is loaded again with the URL the address bar holds: the state
\* is built anew and the calls of the old page settle for nobody.
Reload ==
    /\ mounted
    /\ keyword' = <<>>
    /\ city' = <<>>
    /\ industry' = <<>>
    /\ companySize' = <<>>
    /\ yearsInOperation' = <<>>
    /\ showAdvanced' = FALSE
    /\ isShareable' = FALSE
    /\ currentPage' = 1
    /\ state' = initialState
    /\ mounted' = FALSE
    /\ inflight' = {}
    /\ noEvent
    /\ UNCHANGED <<protocol, search, issued, fetchVars>>

\* No call of fetchBusinessData is under way in the page's own model of it.
FetchAtRest ==
    /\ shape = NoShape
    /\ response = Resolved(FALSE, <<>>)
    /\ pc = "await"
    /\ text = <<>>
    /\ results = <<>>
    /\ outcome = Pending

\* The page and its searches: the user types a keyword and a city, submits,
\* folds the advanced filters, clears, turns the pages and downloads; the
\* calls settle in any order.
InitApp ==
    /\ FetchAtRest
    /\ \/ AppInitial("https:", <<>>)
       \/ AppInitial("https:", SharedLink)
       \/ AppInitial("https:", BlankLink)

NextApp ==
    \/ Mount
    \/ setKeyword \/ setCity
    \/ toggleAdvanced
    \/ handleSearch
    \/ handleClearSearch
    \/ SearchSucceeds
    \/ SearchFails
    \/ nextPage \/ prevPage
    \/ handleDownloadCSV

SpecApp == InitApp /\ [][NextApp]_vars

\* The page and its address bar: the user fills the five fields, submits,
\* clears, copies the link and loads the page again, in a shareable
\* environment or not.
InitUrl ==
    /\ FetchAtRest
    /\ \/ AppInitial("https:", <<>>)
       \/ AppInitial("https:", SharedLink)
       \/ AppInitial("blob:", <<>>)

NextUrl ==
    \/ Mount
    \/ setKeyword \/ setCity \/ setIndustry \/ setCompanySize \/ setYearsInOperation
    \/ handleSearch
    \/ handleClearSearch
    \/ handleShareLink
    \/ SearchAnswers
    \/ Reload

SpecUrl == InitUrl /\ [][NextUrl]_vars

-----------------------------------------------------------------------------
(* Vocabulary of the properties *)

Fields == {"name", "phone", "address", "website"}

Done == pc = "done"

\* The call went through the parse step and JSON.parse threw.
ParseFailed == Done /\ text # <<>> /\ ~JSONParse(text).ok

\* The call went through the parse step and JSON.parse gave a value.
ParseSucceeded == Done /\ text # <<>> /\ JSONParse(text).ok

\* The answer is the payload and nothing else.
IsBare == shape.intro = <<>> /\ shape.outro = <<>> /\ shape.fence = NoFence

\* The answer is the payload between the two delimiters of a fence.
IsFenced == shape.intro = <<>> /\ shape.outro = <<>> /\ shape.fence \in Fences

IsRecord(r) == DOMAIN r = Fields /\ \A f \in Fields : r[f] \in Seq(STRING)

\* A described record of four string fields, name, phone and website real.
IsWellFormed(x) ==
    /\ x.t = "obj"
    /\ \A f \in Fields : \E i \in 1..Len(x.v) : x.v[i].k = <<f>> /\ x.v[i].val.t = "str"
    /\ \A i \in 1..Len(x.v) :
          x.v[i].k \in {<<"name">>, <<"phone">>, <<"website">>} => x.v[i].val.v # NA

\* The string member f of the described or parsed value x, "N/A" without one.
StringMember(x, f) ==
    IF x.t = "obj" /\ \E i \in 1..Len(x.v) : x.v[i].k = <<f>> /\ x.v[i].val.t = "str"
    THEN x.v[CHOOSE i \in 1..Len(x.v) : x.v[i].k = <<f>>].val.v
    ELSE NA

HasPhrase(t, phrase) ==
    \E i \in 1..Len(t) :
        /\ i + Len(phrase) - 1 <= Len(t)
        /\ \A j \in 1..Len(phrase) : LowerAtom(t[i + j - 1]) = phrase[j]

HasRefusalPhrase(t) == HasPhrase(t, RefusalUnable) \/ HasPhrase(t, RefusalCannot)

-----------------------------------------------------------------------------
(* Vocabulary of the properties of the page *)

\* The five fields of the form, as the arguments of a search.
FormValues == Request(keyword, city, industry, companySize, yearsInOperation)

\* The step makes a call of fetchBusinessData: a search is started.
SearchStarts == called' # NoRequest

\* A call of fetchBusinessData settles in the step.
CallSettles == settled' # NoResponse

\* The step is the first effect of a freshly loaded page.
PageLoads == ~mounted /\ mounted'

\* The query string s holds what a submit of the form f is to leave in it:
\* keyword and city, and industry, size and years each with the value of its
\* field when the field is not empty and absent when it is.
Describes(s, f) ==
    LET p == parseQuery(s)
        Holds(name, v) == get(p, name) = (IF v # <<>> THEN JStr(v) ELSE JNull)
    IN /\ get(p, "keyword") = JStr(f.keyword)
       /\ get(p, "city") = JStr(f.city)
       /\ Holds("industry", f.industry)
       /\ Holds("size", f.companySize)
       /\ Holds("years", f.yearsInOperation)

\* Reading a CSV text as RFC 4180 has it, from position i on: the fields in
\* their order, each with its value, with whether it was quoted and with
\* what follows it (a comma, a line feed, the end, or something else).
RECURSIVE undouble(_)
undouble(v) ==
    IF v = <<>> THEN <<>>
    ELSE IF Len(v) >= 2 /\ v[1] = QUOTE /\ v[2] = QUOTE
         THEN <<QUOTE>> \o undouble(SubSeq(v, 3, Len(v)))
         ELSE <<Head(v)>> \o undouble(Tail(v))

\* The quote that closes a quoted field, looked for from position j on: the
\* first one that is not the first of two.
RECURSIVE closingQuote(_, _)
closingQuote(s, j) ==
    IF j > Len(s) THEN Len(s) + 1
    ELSE IF s[j] # QUOTE THEN closingQuote(s, j + 1)
    ELSE IF j < Len(s) /\ s[j + 1] = QUOTE THEN closingQuote(s, j + 2)
    ELSE j

fieldEnd(s, i) ==
    LET seps == {j \in i..Len(s) : s[j] \in {",", LF}} IN
    IF seps = {} THEN Len(s) + 1 ELSE CHOOSE j \in seps : \A k \in seps : j <= k

RECURSIVE csvFields(_, _)
csvFields(s, i) ==
    LET quoted == i <= Len(s) /\ s[i] = QUOTE
        next == IF quoted THEN closingQuote(s, i + 1) + 1 ELSE fieldEnd(s, i)
        value == IF quoted THEN undouble(SubSeq(s, i + 1, next - 2))
                 ELSE SubSeq(s, i, next - 1)
        then == IF next > Len(s) THEN "end"
                ELSE IF s[next] \in {",", LF} THEN s[next] ELSE "other"
        field == [quoted |-> quoted, value |-> value, then |-> then]
    IN IF then \in {",", LF} THEN <<field>> \o csvFields(s, next + 1)
       ELSE <<field>>

Columns == <<"name", "phone", "address", "website">>

\* The fields a CSV text of a header line and one line a record has.
FieldsOfExport(rs) ==
    LET w == Len(Columns)
        After(line, c) == IF c < w THEN "," ELSE IF line < Len(rs) THEN LF ELSE "end"
    IN [n \in 1..(w * (Len(rs) + 1)) |->
           LET line == (n - 1) \div w
               c == ((n - 1) % w) + 1
           IN IF line = 0
              THEN [quoted |-> FALSE, value |-> csvHeaders[c], then |-> After(0, c)]
              ELSE [quoted |-> TRUE, value |-> rs[line][Columns[c]],
                    then |-> After(line, c)]]

-----------------------------------------------------------------------------
(* Properties *)

\* C1: every returned record has name, phone and website different from
\* "N/A", and a sanitized record whose address is "N/A" while its name, phone
\* and website are not is among the returned records.
C1_FilterInvariant ==
    (Done /\ outcome.kind = "returned") =>
        /\ \A i \in 1..Len(outcome.records) :
              /\ outcome.records[i].name # NA
              /\ outcome.records[i].phone # NA
              /\ outcome.records[i].website # NA
        /\ \A i \in 1..Len(results) :
              (/\ results[i].address = NA
               /\ results[i].name # NA
               /\ results[i].phone # NA
               /\ results[i].website # NA)
              => \E j \in 1..Len(outcome.records) : outcome.records[j] = results[i]

\* A call that dropped a record and kept one whose address is "N/A".
C1_Witness ==
    /\ Done /\ outcome.kind = "returned"
    /\ Len(outcome.records) < Len(results)
    /\ \E j \in 1..Len(outcome.records) : outcome.records[j].address = NA

\* C2: a bare answer that is a JSON array is returned as its sanitized
\* elements that pass the filter, in order; an array of well-formed records
\* is returned with the same count and the same field values.
C2_ArrayReturnedAsGiven ==
    (Done /\ IsBare /\ shape.payload.t = "arr") =>
        /\ outcome = Returned(filterResults(
                        [i \in 1..Len(shape.payload.v) |-> sanitizeResult(shape.payload.v[i])]))
        /\ (\A i \in 1..Len(shape.payload.v) : IsWellFormed(shape.payload.v[i])) =>
              /\ Len(outcome.records) = Len(shape.payload.v)
              /\ \A i \in 1..Len(shape.payload.v) : \A f \in Fields :
                    outcome.records[i][f] = StringMember(shape.payload.v[i], f)

\* C3: an absent or empty text, and a text that is empty once the fences and
\* the blanks around are removed, give the empty list and no error.
C3_EmptyTextGivesEmptyList ==
    (/\ Done
     /\ response.status = "resolved"
     /\ \/ ~response.hasText
        \/ response.text = <<>>
        \/ stripFences(response.text) = <<>>)
    => outcome = Returned(<<>>)

\* The answer was an empty fenced block, and the call has returned.
C3_Witness ==
    /\ Done
    /\ shape.payload = Raw(<<>>)
    /\ shape.fence \in {JsonFence, JsonInlineFence, PlainFence}
    /\ response.text # <<>>
    /\ outcome = Returned(<<>>)

\* C4: a JSON array or object between the delimiters of a fence, with the
\* tag json, another tag or none, gives what the array or object alone gives.
C4_FenceIsTransparent ==
    (Done /\ IsFenced /\ shape.payload.t \in {"arr", "obj"})
    => outcome = processText(Render(shape.payload))

\* An object in a fence tagged js came back as one record.
C4_Witness ==
    /\ Done /\ IsFenced
    /\ shape.fence = OtherFence
    /\ shape.payload.t = "obj"
    /\ outcome.kind = "returned"
    /\ Len(outcome.records) = 1

\* Some '[' of t comes before some ']' of t.
HasOrderedBrackets(t) ==
    \E i \in 1..Len(t) : \E j \in (i + 1)..Len(t) : t[i] = "[" /\ t[j] = "]"

\* t from its first '[' to its last ']'.
BracketSpan(t) ==
    SubSeq(t, CHOOSE i \in 1..Len(t) : t[i] = "[" /\ \A m \in 1..(i - 1) : t[m] # "[",
              CHOOSE j \in 1..Len(t) : t[j] = "]" /\ \A m \in (j + 1)..Len(t) : t[m] # "]")

\* C5: prose before a JSON array without '[' and prose after it without ']'
\* change nothing in what the call gives; and the text is cut to the span
\* from its first '[' to its last ']' exactly when a '[' comes before a ']'
\* (without that it is left whole or cut to a span from '{' to '}').
C5_ProseAroundArrayDiscarded ==
    /\ (/\ Done
        /\ shape.fence = NoFence
        /\ shape.payload.t = "arr"
        /\ \A i \in 1..Len(shape.intro) : shape.intro[i] # "["
        /\ \A i \in 1..Len(shape.outro) : shape.outro[i] # "]")
       => outcome = processText(Render(shape.payload))
    /\ pc = "parse" =>
          LET stripped == stripFences(response.text) IN
          IF HasOrderedBrackets(stripped)
          THEN text = BracketSpan(stripped)
          ELSE \/ text = stripped
               \/ text # <<>> /\ text[1] = "{" /\ text[Len(text)] = "}"

\* Two records came back from an array that had prose before and after it.
C5_Witness ==
    /\ Done
    /\ shape.fence = NoFence
    /\ shape.payload.t = "arr"
    /\ shape.intro = <<"see", "]", SP>>
    /\ shape.outro = <<SP, "[", "note">>
    /\ outcome.kind = "returned"
    /\ Len(outcome.records) = 2

\* C6: a bare answer that is one JSON object, whatever its strings and extra
\* members hold, gives the sanitized record of that object when it passes
\* the filter and the empty list when it does not.
C6_SingleObjectWrapped ==
    (Done /\ IsBare /\ shape.payload.t = "obj")
    => outcome = Returned(filterResults(<<sanitizeResult(shape.payload)>>))

\* The text, letter case aside, is one of the two refusal phrases.
IsRefusalOnly(t) == toLowerCase(t) \in {RefusalUnable, RefusalCannot}

\* C7: when JSON.parse of the cleaned text fails no record is returned and
\* the error is CriteriaTooStrict when the cleaned text holds a refusal
\* phrase in any letter case, MalformedResponse when it holds none; an answer
\* that is only a refusal phrase gives CriteriaTooStrict.
C7_ParseFailureErrors ==
    ParseFailed =>
        /\ outcome.kind = "thrown"
        /\ outcome.records = <<>>
        /\ outcome.message =
              IF HasRefusalPhrase(text) THEN CriteriaTooStrictMessage ELSE MalformedMessage
        /\ IsRefusalOnly(response.text) => outcome.message = CriteriaTooStrictMessage

\* The answer was a refusal phrase in capitals and CriteriaTooStrict came out.
C7_Witness ==
    /\ ParseFailed
    /\ response.text = <<"UNABLE", SP, "TO", SP, "FULFILL">>
    /\ outcome = Thrown(CriteriaTooStrictMessage)

\* C8: when JSON.parse fails and the original text of the model holds a
\* refusal phrase anywhere, the error is CriteriaTooStrict.
C8_RefusalCheckedOnOriginalText ==
    (ParseFailed /\ HasRefusalPhrase(response.text))
    => outcome = Thrown(CriteriaTooStrictMessage)

\* C9: the sanitized list has one record per element of the parsed array
\* (one record for a parsed object); each has exactly the four fields, all
\* strings: the string member of that name of the element, "N/A" when the
\* element has no string member of that name or is no object.
C9_SanitizeResultShape ==
    ParseSucceeded =>
        LET parsed == JSONParse(text).val
            items == IF parsed.t = "arr" THEN parsed.v
                     ELSE IF parsed.t = "obj" THEN <<parsed>> ELSE <<>>
        IN /\ Len(results) = Len(items)
           /\ \A i \in 1..Len(items) :
                 /\ IsRecord(results[i])
                 /\ \A f \in Fields : results[i][f] = StringMember(items[i], f)

\* An object with a number as name, no address and an extra member was
\* sanitized.
C9_Witness ==
    /\ ParseSucceeded
    /\ JSONParse(text).val.t = "arr"
    /\ Len(results) = 1
    /\ LET item == JSONParse(text).val.v[1] IN
          /\ item.t = "obj"
          /\ \E i \in 1..Len(item.v) : item.v[i].k = <<"tags">>
          /\ \E i \in 1..Len(item.v) : item.v[i].k = <<"name">> /\ item.v[i].val.t = "num"
          /\ \A i \in 1..Len(item.v) : item.v[i].k # <<"address">>
    /\ results[1].name = NA /\ results[1].address = NA
    /\ results[1].phone = <<"5", "5", "5">>

\* C10: when the cleaned text parses to a number, a string, a boolean or
\* null, the call returns the empty list.
C10_PrimitiveGivesEmptyList ==
    (ParseSucceeded /\ JSONParse(text).val.t \in {"num", "str", "bool", "null"})
    => outcome = Returned(<<>>)

\* The cleaned text was a JSON string and the empty list came back.
C10_Witness ==
    /\ ParseSucceeded
    /\ JSONParse(text).val.t = "str"
    /\ outcome = Returned(<<>>)

\* C11: sanitizeResult is idempotent: applied to one of its own results it
\* gives that result again.
C11_SanitizeIdempotent ==
    ParseSucceeded =>
        \A i \in 1..Len(results) : sanitizeResult(toObject(results[i])) = results[i]

\* A parsed element with a real name and a phone that is not a string was
\* sanitized, and sanitizing the result again changes nothing.
C11_Witness ==
    /\ ParseSucceeded
    /\ \E i \in 1..Len(results) :
          /\ results[i].name \notin {NA, <<>>}
          /\ results[i].phone = NA
          /\ results[i].name # results[i].website
          /\ sanitizeResult(toObject(results[i])) = results[i]

\* C12: an error of the parse step, "Criteria too strict" or "malformed
\* data", reaches the caller with the message the parse step gave it; the
\* outer catch never puts the generic message in its place.
C12_ParseErrorsPassThrough ==
    ParseFailed =>
        /\ outcome.kind = "thrown"
        /\ outcome.message = parseErrorMessage(text)
        /\ outcome.message \in {CriteriaTooStrictMessage, MalformedMessage}
        /\ outcome.message # FetchFailedMessage

\* The parse step threw the refusal error and the caller got that message.
C12_Witness ==
    /\ ParseFailed
    /\ isRefusal(text)
    /\ outcome = Thrown(CriteriaTooStrictMessage)

\* C13: every error of the upstream call reaches the caller as the generic
\* error with its fixed message, whatever the message of the upstream error.
C13_UpstreamErrorsAreGeneric ==
    (Done /\ response.status = "rejected") => outcome = Thrown(FetchFailedMessage)

C15_LastResponseWins ==
    [][CallSettles =>
          /\ ~state'.isLoading
          /\ settled'.outcome.kind = "returned" =>
                state'.results = settled'.outcome.records
          /\ settled'.outcome.kind = "thrown" =>
                state'.error = JStr(settled'.outcome.message)]_vars

\* Two searches were started, the second while the first was unresolved;
\* the first settled last and its records are the ones on the screen.
C15_Witness ==
    /\ issued > 1
    /\ inflight = {}
    /\ settled.id = 1
    /\ settled.outcome = Returned(SmallList)
    /\ state.results = SmallList
    /\ tableShown

\* C16: the search goes through the URL and back: when the page is loaded
\* with a query string that a submit has written for the form values f, the
\* five fields of the form get the values of f and a search is started with
\* exactly those five values.
C16_UrlRoundTrip ==
    [][/\ (handleSearch /\ isShareable) => Describes(search', FormValues)
       /\ PageLoads =>
            \A k \in Keywords \ {<<>>}, c \in Cities \ {<<>>}, i \in Industries,
               sz \in Sizes, y \in Years :
                Describes(search, Request(k, c, i, sz, y)) =>
                    /\ FormValues' = Request(k, c, i, sz, y)
                    /\ called' = Request(k, c, i, sz, y)]_vars

\* C17: the query parameters are written on search only: a submit changes
\* the URL only when it starts a search, and the URL then describes that
\* search.
C17_UrlWrittenOnSearchOnly ==
    [][(handleSearch /\ search' # search) =>
          /\ SearchStarts
          /\ Describes(search', called')]_vars

\* C18: the downloaded CSV text is a header line followed by one line a
\* result, in the order of the results, each of the four fields name, phone,
\* address, website in double quotes and reading back, with the doubled
\* quotes undone, as the value of the record; nothing is downloaded when
\* there are no results.
C18_CsvExport ==
    IF Len(state.results) = 0
    THEN csvContent = <<>>
    ELSE csvContent # <<>> =>
            csvFields(csvContent, 1) = FieldsOfExport(state.results)

\* The list with double quotes, a comma and a line feed in its values was
\* downloaded.
C18_Witness ==
    /\ state.results = SmallList
    /\ csvContent # <<>>
    /\ csvFields(csvContent, 1) = FieldsOfExport(SmallList)

\* C19: the records do not survive the start of the next search: the step
\* that starts a search leaves the empty list, no error, isLoading true,
\* hasSearched true and the first page.
C19_SearchStartResets ==
    [][SearchStarts =>
          /\ state' = [results |-> <<>>, isLoading |-> TRUE, error |-> JNull,
                       hasSearched |-> TRUE]
          /\ currentPage' = 1]_vars

\* A second search has just been started after the first one had settled.
C19_Witness ==
    /\ called # NoRequest
    /\ issued > 1
    /\ inflight = {issued}
    /\ state.results = <<>>
    /\ state.isLoading
    /\ currentPage = 1

\* C20: every returned record has a name, a phone and a website that are
\* non-empty strings, so that the table never shows "N/A" for the name or
\* the phone of a listed business.
C20_NoPartialData ==
    (Done /\ outcome.kind = "returned") =>
        \A i \in 1..Len(outcome.records) :
            /\ outcome.records[i].name # <<>>
            /\ outcome.records[i].phone # <<>>
            /\ outcome.records[i].website # <<>>
            /\ cellText(outcome.records[i].name) # NA
            /\ cellText(outcome.records[i].phone) # NA

\* C21: when a search is the only outstanding request and it completes, the
\* state is, on success, the returned list, no error, isLoading false and
\* hasSearched true, and on failure the empty list, a non-empty message,
\* isLoading false and hasSearched true.
C21_SoleSearchCompletes ==
    [][(CallSettles /\ inflight = {settled'.id}) =>
          IF settled'.outcome.kind = "returned"
          THEN state' = [results |-> settled'.outcome.records, isLoading |-> FALSE,
                         error |-> JNull, hasSearched |-> TRUE]
          ELSE /\ settled'.outcome.message # <<>>
               /\ state' = [results |-> <<>>, isLoading |-> FALSE,
                            error |-> JStr(settled'.outcome.message),
                            hasSearched |-> TRUE]]_vars

\* C22: in every reachable state isLoading is true exactly when at least
\* one search request is outstanding.
C22_LoadingIffOutstanding == state.isLoading <=> inflight # {}

\* C25: in every reachable state an error message and results are never
\* there together: error is not null implies results is the empty list.
C25_ErrorExcludesResults == state.error # JNull => state.results = <<>>

\* C23: in every reachable state the current page is a valid page, from 1 to
\* the larger of 1 and totalPages, so that the records of the page are not
\* none when there are results.
C23_PageIsValid ==
    /\ 1 <= currentPage
    /\ currentPage <= (IF totalPages(state.results) > 1
                       THEN totalPages(state.results) ELSE 1)
    /\ state.results # <<>> => currentItems(state.results, currentPage) # <<>>

\* C24: Clear leaves the initial state, all form fields empty, and from then
\* on, until a search is started, results stays empty and error stays null,
\* also when a request was outstanding when Clear was pressed.
C24_ClearStaysClear ==
    [][/\ handleClearSearch =>
            /\ FormValues' = NoRequest
            /\ state' = initialState
            /\ currentPage' = 1
       /\ (~state.hasSearched /\ ~SearchStarts) =>
            /\ state'.results = <<>>
            /\ state'.error = JNull]_vars

\* C26: a search invoked with a keyword or a city that is empty or only
\* blanks, by a submit or by the load of the page, makes no request and
\* leaves results, isLoading, error, hasSearched and currentPage as they are.
C26_BlankSearchDoesNothing ==
    [][(\/ handleSearch /\ (trim(keyword) = <<>> \/ trim(city) = <<>>)
        \/ /\ PageLoads
           /\ \/ trim(orEmpty(get(parseQuery(search), "keyword"))) = <<>>
              \/ trim(orEmpty(get(parseQuery(search), "city"))) = <<>>) =>
          /\ called' = NoRequest
          /\ issued' = issued
          /\ inflight' = inflight
          /\ state' = state
          /\ currentPage' = currentPage]_vars

\* A list of two pages is on the screen, on its second page, and the form
\* was submitted with a keyword of one blank: the address bar has it.
C26_Witness ==
    /\ keyword = <<SP>>
    /\ city # <<>>
    /\ Describes(search, FormValues)
    /\ called = NoRequest
    /\ state.results = LargeList
    /\ tableShown
    /\ currentPage > 1

\* C27: the link handleShareLink copies, keyword and city not empty, holds
\* the form as it is: keyword and city, and industry, size and years each
\* with the value of its field when the field is not empty and absent when
\* it is, whatever an earlier search left in the URL.
C27_ShareLinkEncodesForm ==
    copied # JNull => Describes(copied.v, FormValues)

=============================================================================
